---------------------------- MODULE Spec2Model ----------------------------
(***************************************************************************)
(* A model of the fixed-fast crate: the FixedDecimal scaled-integer type,  *)
(* its textual encoding, its checked and unchecked arithmetic, and the     *)
(* special functions built on it.                                          *)
(*                                                                         *)
(* The crate stores a value as an i128 raw integer read as raw / 10^P.     *)
(* The model keeps the two's-complement integer but narrows it to Bits     *)
(* bits, and keeps P (PRECISION) small, so that every overflow, wrap and   *)
(* truncation of the code happens inside the model's range.  PRECISION is  *)
(* the constant of the type parameter T: it is picked when the library is  *)
(* instantiated and never changes.                                         *)
(*                                                                         *)
(* Rust integer overflow is build dependent: with overflow checks (debug   *)
(* builds) the operation panics, without them (release builds) it wraps.   *)
(* The variable overflow_checks picks the build; both are explored.        *)
(***************************************************************************)
EXTENDS Integers, Sequences, FiniteSets, TLC

VARIABLES overflow_checks, PRECISION, lookup, call

vars == <<overflow_checks, PRECISION, lookup, call>>

(***************************************************************************)
(* Bounds of the model.                                                    *)
(***************************************************************************)
\* width of the raw integer (i128 in the crate)
Bits == 10
\* largest T::PRECISION, the number of fractional decimal digits
MaxPrecision == 2
\* magnitude of the second operand of the binary operations
MaxOperand == 24
\* largest raw value a table's end is set to
MaxTableEnd == 10
\* largest APPROX_DEPTH (iteration count) a call is made with
MaxDepth == 3
\* largest integer part of the strings from_str is called with
MaxIntegerPart == 6

RECURSIVE Pow(_, _)
Pow(b, n) == IF n = 0 THEN 1 ELSE b * Pow(b, n - 1)

MinRaw == -Pow(2, Bits - 1)
MaxRaw == Pow(2, Bits - 1) - 1
Raw == MinRaw..MaxRaw
\* the (start, end, step_size) a table is constructed with, as raw values:
\* end - start a multiple of the step and not, and one end short enough
\* for (end - start) * scale to fit at every precision
TableStarts == {0, 2}
TableEnds == {MaxTableEnd \div 2 - 1, MaxTableEnd - 2, MaxTableEnd}
TableSteps == {2, 3}
\* the fractional digit strings from_str is called with: up to one digit
\* more than the largest precision
FractionDigits == {"0", "4", "5", "9"}
Fractions == UNION {[1..n -> FractionDigits] : n \in 0..(MaxPrecision + 1)}
Operands == {MinRaw, MinRaw + 1, MaxRaw} \cup (-MaxOperand..MaxOperand)

Fits(n) == MinRaw <= n /\ n <= MaxRaw
\* two's-complement wrap of an out-of-range result
Wrap(n) == ((n - MinRaw) % Pow(2, Bits)) + MinRaw

(***************************************************************************)
(* Outcomes of a call: a returned value, a Result (Ok / Err) or a panic.   *)
(***************************************************************************)
Value(n) == [tag |-> "Value", raw |-> n, err |-> "none"]
Ok(n) == [tag |-> "Ok", raw |-> n, err |-> "none"]
Err(e) == [tag |-> "Err", raw |-> 0, err |-> e]
Panic(why) == [tag |-> "Panic", raw |-> 0, err |-> why]

IsValue(r) == r.tag = "Value"
IsPanic(r) == r.tag = "Panic"

\* F applied to the value of v, which is computed once
Let(v, F(_)) == CHOOSE out \in {F(x) : x \in {v}} : TRUE

\* sequencing: a panic in r ends the computation, else continue with r.raw
Then(r, F(_)) ==
    CHOOSE out \in {IF v.tag = "Value" THEN F(v.raw) ELSE v : v \in {r}} : TRUE

\* a Result whose Ok value comes from a computation that may panic
OkOf(r) == CHOOSE out \in {IF IsPanic(v) THEN v ELSE Ok(v.raw) : v \in {r}} : TRUE

(***************************************************************************)
(* Primitive i128 arithmetic.                                              *)
(***************************************************************************)
\* an arithmetic result: in range, or panic (checked build) / wrap
Arith(n) ==
    IF Fits(n) THEN Value(n)
    ELSE IF overflow_checks THEN Panic("overflow") ELSE Value(Wrap(n))

\* Rust integer division truncates toward zero
TruncDiv(a, b) ==
    IF (a >= 0) = (b > 0) THEN (IF a >= 0 THEN a ELSE -a) \div (IF b > 0 THEN b ELSE -b)
    ELSE -((IF a >= 0 THEN a ELSE -a) \div (IF b > 0 THEN b ELSE -b))

\* Rust remainder: a - b * trunc(a / b)
TruncRem(a, b) == a - b * TruncDiv(a, b)

IAdd(a, b) == Arith(a + b)
ISub(a, b) == Arith(a - b)
IMul(a, b) == Arith(a * b)
INeg(a) == Arith(-a)
IAbs(a) == IF a < 0 THEN Arith(-a) ELSE Value(a)
\* division panics on a zero divisor and on MIN / -1 in every build
IDiv(a, b) ==
    IF b = 0 THEN Panic("divide by zero")
    ELSE IF a = MinRaw /\ b = -1 THEN Panic("overflow")
    ELSE Value(TruncDiv(a, b))
IRem(a, b) ==
    IF b = 0 THEN Panic("divide by zero")
    ELSE IF a = MinRaw /\ b = -1 THEN Panic("overflow")
    ELSE Value(TruncRem(a, b))

(***************************************************************************)
(* FixedDecimal constructors and accessors.                                *)
(***************************************************************************)
scale == Pow(10, PRECISION)
zero == 0
one == scale
from_raw(x) == Value(x)
from_i128(x) == IMul(x, scale)
to_i128(x) == TruncDiv(x, scale)
neg(x) == INeg(x)

(***************************************************************************)
(* Text.  A string is a sequence of one-character strings.                 *)
(***************************************************************************)
DigitChars == <<"0", "1", "2", "3", "4", "5", "6", "7", "8", "9">>
Digit(d) == DigitChars[d + 1]
IsDigit(c) == \E d \in 0..9 : DigitChars[d + 1] = c
DigitVal(c) == CHOOSE d \in 0..9 : DigitChars[d + 1] = c

\* the decimal digits of n >= 0, most significant first
RECURSIVE Dec(_)
Dec(n) == IF n < 10 THEN <<Digit(n)>> ELSE Dec(n \div 10) \o <<Digit(n % 10)>>

RECURSIVE Zeros(_)
Zeros(k) == IF k <= 0 THEN <<>> ELSE <<"0">> \o Zeros(k - 1)

\* format!("{}", n)
FormatInt(n) == IF n < 0 THEN <<"-">> \o Dec(-n) ELSE Dec(n)

\* format!("{:0width$}", n): sign-aware zero padding to a minimum width
FormatPadded(n, width) ==
    IF n < 0 THEN <<"-">> \o Zeros(width - 1 - Len(Dec(-n))) \o Dec(-n)
    ELSE Zeros(width - Len(Dec(n))) \o Dec(n)

\* str::trim_end_matches('0')
RECURSIVE TrimEndZeros(_)
TrimEndZeros(s) ==
    IF Len(s) > 0 /\ s[Len(s)] = "0" THEN TrimEndZeros(SubSeq(s, 1, Len(s) - 1))
    ELSE s

\* str::split('.'): the pieces between the dots, at least one piece
RECURSIVE SplitDot(_)
SplitDot(s) ==
    IF \A i \in 1..Len(s) : s[i] /= "." THEN <<s>>
    ELSE LET i == CHOOSE j \in 1..Len(s) :
                      s[j] = "." /\ \A k \in 1..(j - 1) : s[k] /= "."
         IN <<SubSeq(s, 1, i - 1)>> \o SplitDot(SubSeq(s, i + 1, Len(s)))

\* the value of a non-empty digit string, or -1 once it passes `limit`
RECURSIVE DigitsValue(_, _)
DigitsValue(s, limit) ==
    IF Len(s) = 0 THEN 0
    ELSE Let(DigitsValue(SubSeq(s, 1, Len(s) - 1), limit), LAMBDA hi :
             LET v == hi * 10 + DigitVal(s[Len(s)])
             IN IF hi < 0 \/ v > limit THEN -1 ELSE v)

\* str::parse::<i128>: an optional sign, then one or more digits; an empty
\* string, a lone sign, a non-digit or a value out of range is an error
ParseInt(s) ==
    LET signed == Len(s) > 0 /\ s[1] \in {"-", "+"}
        negative == Len(s) > 0 /\ s[1] = "-"
        digits == IF signed THEN Tail(s) ELSE s
        mag == DigitsValue(digits, IF negative THEN -MinRaw ELSE MaxRaw)
    IN IF Len(digits) = 0 \/ (\E i \in 1..Len(digits) : ~IsDigit(digits[i])) \/ mag < 0
       THEN Err("parse")
       ELSE Ok(IF negative THEN -mag ELSE mag)

Str(s) == [tag |-> "Value", str |-> s, err |-> "none"]
StrPanic(why) == [tag |-> "Panic", str |-> <<>>, err |-> why]

\* FixedDecimal::to_string
to_string(x) ==
    Let(IAbs(x), LAMBDA a :
        IF IsPanic(a) THEN StrPanic(a.err)
        ELSE Let(TrimEndZeros(FormatPadded(TruncRem(a.raw, scale), PRECISION)),
                 LAMBDA decimal_str :
                     IF Len(decimal_str) = 0
                     THEN Str(FormatInt(to_i128(x)))
                     ELSE Str(FormatInt(to_i128(x)) \o <<".">> \o decimal_str)))

\* the tail of from_str, once both parts have parsed
from_str_value(int, decimal_part, dec, is_negative) ==
    LET sc == PRECISION - Len(decimal_part)
        decimal_value ==
            IF sc > 0 THEN IMul(dec, Pow(10, sc))
            ELSE IF sc < 0 THEN IDiv(dec, Pow(10, -sc))
            ELSE Value(dec)
    IN OkOf(Then(from_i128(int), LAMBDA r :
                Then(decimal_value, LAMBDA d :
                    Then(IAdd(r, d), LAMBDA sum :
                        IF is_negative THEN INeg(sum) ELSE Value(sum)))))

\* the fractional digits rounded half up to PRECISION digits instead of cut
decimal_part_rounded(decimal_full) ==
    IF Len(decimal_full) > PRECISION
    THEN LET kept == SubSeq(decimal_full, 1, PRECISION)
         IN IF DigitVal(decimal_full[PRECISION + 1]) >= 5
            THEN FormatPadded(DigitsValue(kept, Pow(10, PRECISION)) + 1, PRECISION)
            ELSE kept
    ELSE decimal_full

\* the fractional digits from_str keeps: at most the first PRECISION
decimal_part_kept(decimal_full) ==
    IF Len(decimal_full) > PRECISION
    THEN SubSeq(decimal_full, 1, PRECISION)
    ELSE decimal_full

\* FixedDecimal::from_str
from_str(s) ==
    LET is_negative == Len(s) > 0 /\ s[1] = "-"
        x == IF is_negative THEN Tail(s) ELSE s
    IN Let(SplitDot(x), LAMBDA parts :
           LET integer_part == parts[1]
               decimal_full == IF Len(parts) >= 2 THEN parts[2] ELSE <<"0">>
               decimal_part == decimal_part_kept(decimal_full)
           IN Let(ParseInt(integer_part), LAMBDA int :
                  IF int.tag = "Err" THEN Err("Invalid integer part")
                  ELSE Then(from_i128(int.raw), LAMBDA r :
                           Let(ParseInt(decimal_part), LAMBDA dec :
                               IF dec.tag = "Err" THEN Err("Invalid decimal part")
                               ELSE from_str_value(int.raw, decimal_part,
                                                   dec.raw, is_negative)))))

(***************************************************************************)
(* Unchecked arithmetic: the named methods, the operator impls and the     *)
(* *_assign impls.                                                         *)
(***************************************************************************)
add(a, b) == IAdd(a, b)
sub(a, b) == ISub(a, b)
\* mul with the quotient rounded down instead of truncated toward zero
mul_rounding_down(a, b) == Then(IMul(a, b), LAMBDA p : Value(p \div scale))
mul(a, b) == Then(IMul(a, b), LAMBDA p : IDiv(p, scale))
div(a, b) == Then(IMul(a, scale), LAMBDA p : IDiv(p, b))

op_add(a, b) == IAdd(a, b)
op_sub(a, b) == ISub(a, b)
op_mul(a, b) == Then(IMul(a, b), LAMBDA p : IDiv(p, scale))
op_div(a, b) == Then(IMul(a, scale), LAMBDA p : IDiv(p, b))

add_assign(a, b) == op_add(a, b)
sub_assign(a, b) == op_sub(a, b)
mul_assign(a, b) == op_mul(a, b)
div_assign(a, b) == op_div(a, b)

\* the forms that take a primitive integer on the right
add_i128(a, n) == Then(IMul(n, scale), LAMBDA r : IAdd(a, r))
sub_i128(a, n) == Then(IMul(n, scale), LAMBDA r : ISub(a, r))
mul_i128(a, n) == IMul(a, n)
div_i128(a, n) == IDiv(a, n)

(***************************************************************************)
(* Checked arithmetic.                                                     *)
(***************************************************************************)
checked_add(a, b) == IF Fits(a + b) THEN Ok(a + b) ELSE Err("Overflow")
checked_sub(a, b) == IF Fits(a - b) THEN Ok(a - b) ELSE Err("Overflow")
checked_mul(a, b) ==
    IF Fits(a * b) THEN OkOf(IDiv(a * b, scale)) ELSE Err("Overflow")
checked_div(a, b) == IF b = 0 THEN Err("DivideByZero") ELSE OkOf(op_div(a, b))

(***************************************************************************)
(* Named constants and shifts.                                             *)
(***************************************************************************)
\* the leading digits of the literal ln2_raw = 693147180559945309417232121458
Ln2Digits == <<6, 9, 3, 1, 4, 7, 1, 8, 0>>

\* the number written by the first n digits of ds
RECURSIVE PrefixValue(_, _)
PrefixValue(ds, n) ==
    IF n = 0 THEN 0 ELSE PrefixValue(ds, n - 1) * 10 + ds[n]

\* FixedDecimal::ln2: scale_raw(ln2_raw, PRECISION - 30) divides the 30-digit
\* literal by 10^(30 - PRECISION), which keeps its first PRECISION digits
ln2 == PrefixValue(Ln2Digits, PRECISION)

\* a shift count the integer width does not allow panics with overflow
\* checks on and is reduced modulo the width with them off
ShiftCount(k) == IF 0 <= k /\ k < Bits THEN Value(k)
                 ELSE IF overflow_checks THEN Panic("shift overflow")
                 ELSE Value(k % Bits)

\* impl Shl: self.0 << rhs, the bits shifted out are dropped
shl(x, k) == Then(ShiftCount(k), LAMBDA n : Value(Wrap(x * Pow(2, n))))
\* impl Shr: self.0 >> rhs, an arithmetic shift (rounds toward minus infinity)
shr(x, k) == Then(ShiftCount(k), LAMBDA n : Value(x \div Pow(2, n)))

\* FixedDecimal::two_pow_k
two_pow_k(k) ==
    IF k > 0 THEN shl(one, k)
    ELSE IF k < 0 THEN shr(one, -k)
    ELSE Value(one)

(***************************************************************************)
(* Exp: range reduction by ln2 and a Taylor series of fixed order.         *)
(***************************************************************************)
\* term * r / i
taylor_term(r, term, i) == Then(op_mul(term, r), LAMBDA m : div_i128(m, i))

\* the loop variables: raw is `result`
TaylorVars(term, result) ==
    [tag |-> "Value", raw |-> result, err |-> "none", term |-> term]

\* one pass of the loop body: term = term * r / i; result += term
taylor_pass(r, st, i) ==
    Then(taylor_term(r, st.term, i), LAMBDA t :
        Then(add_assign(st.raw, t), LAMBDA acc : TaylorVars(t, acc)))

\* for i in 1..=TAYLOR_ORDER { .. }: the passes lo..hi in order, from the
\* loop variables st; a pass that panics ends the loop
RECURSIVE taylor_loop(_, _, _, _)
taylor_loop(r, st, lo, hi) ==
    IF lo > hi THEN st
    ELSE IF lo = hi THEN taylor_pass(r, st, lo)
    ELSE Let(taylor_loop(r, st, lo, (lo + hi) \div 2), LAMBDA half :
             IF IsPanic(half) THEN half
             ELSE taylor_loop(r, half, (lo + hi) \div 2 + 1, hi))

\* k and r of range_reduce_taylor_exp: raw is `r`
ExpReduced(k, r) == [tag |-> "Value", raw |-> r, err |-> "none", k |-> k]

\* let k = (x / ln2).floor_i128(); let r = x - ln2 * FixedDecimal::from_i128(k)
exp_range_reduction(x) ==
    Then(op_div(x, ln2), LAMBDA q :
        LET k == to_i128(q)
        IN Then(from_i128(k), LAMBDA kf :
               Then(op_mul(ln2, kf), LAMBDA kl :
                   Then(op_sub(x, kl), LAMBDA r : ExpReduced(k, r)))))

\* range_reduce_taylor_exp::<T, TAYLOR_ORDER>
range_reduce_taylor_exp(x, order) ==
    Let(exp_range_reduction(x), LAMBDA reduced :
        IF IsPanic(reduced) THEN reduced
        ELSE LET k == reduced.k
                 r == reduced.raw
             IN Then(from_i128(1), LAMBDA term :
                    Then(taylor_loop(r, TaylorVars(term, term), 1, order), LAMBDA result :
                        Then(two_pow_k(k), LAMBDA range_gain :
                            op_mul(result, range_gain)))))

(***************************************************************************)
(* Ln: reduction into [1, 2] by halving and doubling, then the arctanh     *)
(* series.  A run that never leaves the doubling loop has the outcome Hang.*)
(***************************************************************************)
Hang == [tag |-> "Hang", raw |-> 0, err |-> "none"]
Reduced(x, s) == [tag |-> "Value", raw |-> x, err |-> "none", shift |-> s]

\* while input > 2 { input /= 2; shift_coef += 1 }: the comparison computes
\* 2 * scale; once input is 0 and still above it, the loop never ends
RECURSIVE halve_loop(_, _)
halve_loop(input, shift_coef) ==
    Then(IMul(2, scale), LAMBDA two :
        IF input > two
        THEN IF input = 0 THEN Hang
             ELSE Then(div_i128(input, 2), LAMBDA h : halve_loop(h, shift_coef + 1))
        ELSE Reduced(input, shift_coef))

\* the doubling loop without its shift_coef -= 1
RECURSIVE double_loop_without_count(_, _)
double_loop_without_count(input, shift_coef) ==
    IF input < 1 * scale
    THEN IF input = 0 THEN Hang
         ELSE Then(mul_i128(input, 2), LAMBDA d : double_loop_without_count(d, shift_coef))
    ELSE Reduced(input, shift_coef)

\* while input < 1 { input *= 2; shift_coef -= 1 }
RECURSIVE double_loop(_, _)
double_loop(input, shift_coef) ==
    IF input < 1 * scale
    THEN IF input = 0 THEN Hang
         ELSE Then(mul_i128(input, 2), LAMBDA d : double_loop(d, shift_coef - 1))
    ELSE Reduced(input, shift_coef)

\* nth_term * arctan_term_squared / (2 * n + 1)
arctanh_term(squared, nth_term, n) ==
    Then(op_mul(nth_term, squared), LAMBDA m : div_i128(m, 2 * n + 1))

\* for n in 1..APPROX_DEPTH { nth_term = nth_term * t^2 / (2n + 1); sum += nth_term }
RECURSIVE arctanh_loop(_, _, _, _, _)
arctanh_loop(squared, nth_term, running_sum, n, depth) ==
    IF n >= depth THEN Value(running_sum)
    ELSE Then(arctanh_term(squared, nth_term, n), LAMBDA t :
             Then(add_assign(running_sum, t), LAMBDA acc :
                 arctanh_loop(squared, t, acc, n + 1, depth)))

\* the series and the final 2 * sum + shift_coef * ln2
arctanh_ln(input, shift_coef, depth) ==
    Then(sub_i128(input, 1), LAMBDA num :
        Then(add_i128(input, 1), LAMBDA den :
            Then(op_div(num, den), LAMBDA arctan_term :
                Then(op_mul(arctan_term, arctan_term), LAMBDA squared :
                    Then(arctanh_loop(squared, arctan_term, arctan_term, 1, depth),
                         LAMBDA running_sum :
                        Then(mul_i128(ln2, shift_coef), LAMBDA shift :
                            Then(mul_i128(running_sum, 2), LAMBDA twice :
                                op_add(twice, shift))))))))

\* the zero test and the two reduction loops of range_reduce_arctanh_ln
ln_range_reduction(x) ==
    IF x = 0 * scale THEN Panic("ln(0) is undefined")
    ELSE Let(halve_loop(x, 0), LAMBDA halved :
             IF halved.tag /= "Value" THEN halved
             ELSE double_loop(halved.raw, halved.shift))

\* range_reduce_arctanh_ln::<T, APPROX_DEPTH>
range_reduce_arctanh_ln(x, depth) ==
    Let(ln_range_reduction(x), LAMBDA reduced :
        IF reduced.tag /= "Value" THEN reduced
        ELSE arctanh_ln(reduced.raw, reduced.shift, depth))

\* Function for LnArcTanhExpansion
LnArcTanhExpansion_evaluate(x, depth) == range_reduce_arctanh_ln(x, depth)

\* Function for ExpRangeReduceTaylor
ExpRangeReduceTaylor_evaluate(x, order) == range_reduce_taylor_exp(x, order)

(***************************************************************************)
(* Sqrt: Newton-Raphson with a fixed iteration count.  A run returns its   *)
(* outcome and the number of loop iterations it entered.                   *)
(***************************************************************************)
Run(r, n) == [res |-> r, iters |-> n]

\* one pass of the loop body: y = (y + x.div(y)) / 2
newton_step(x, y) ==
    Then(op_div(x, y), LAMBDA q :
        Then(op_add(y, q), LAMBDA t : div_i128(t, 2)))

\* for _ in 0..APPROX_DEPTH { y = (y + x.div(y)) / 2 }
RECURSIVE newton_loop(_, _, _)
newton_loop(x, y, depth) ==
    IF depth = 0 THEN Run(Value(y), 0)
    ELSE Let(newton_step(x, y), LAMBDA next :
             IF IsPanic(next) THEN Run(next, 1)
             ELSE Let(newton_loop(x, next.raw, depth - 1), LAMBDA rest :
                      Run(rest.res, rest.iters + 1)))

\* sqrt_newton_raphson::<T, APPROX_DEPTH>
sqrt_newton_raphson_run(x, depth) ==
    IF x = 0 * scale THEN Run(from_i128(0), 0)
    ELSE newton_loop(x, div_i128(x, 2).raw, depth)

sqrt_newton_raphson(x, depth) == sqrt_newton_raphson_run(x, depth).res

\* sqrt_newton_raphson_try without its test for a negative input
sqrt_try_without_domain_check(x, depth) ==
    IF x = zero THEN Run(Ok(zero), 0)
    ELSE Let(newton_loop(x, div_i128(x, 2).raw, depth), LAMBDA run :
             Run(OkOf(run.res), run.iters))

\* sqrt_newton_raphson_try::<T, APPROX_DEPTH>
sqrt_newton_raphson_try_run(x, depth) ==
    IF x < zero THEN Run(Err("DomainError"), 0)
    ELSE IF x = zero THEN Run(Ok(zero), 0)
    ELSE Let(newton_loop(x, div_i128(x, 2).raw, depth), LAMBDA run :
             Run(OkOf(run.res), run.iters))

sqrt_newton_raphson_try(x, depth) == sqrt_newton_raphson_try_run(x, depth).res

\* FixedDecimal::checked_sqrt::<APPROX_DEPTH>
checked_sqrt_run(x, depth) == sqrt_newton_raphson_try_run(x, depth)

\* Function / TryFunction for SqrtNewtonRaphson
SqrtNewtonRaphson_evaluate(x, depth) == sqrt_newton_raphson(x, depth)
SqrtNewtonRaphson_try_evaluate(x, depth) == sqrt_newton_raphson_try(x, depth)

(***************************************************************************)
(* Interpolation and LookupTable.  A table is the record of its samples    *)
(* (a sequence, sample i of the code at position i + 1), start, end and    *)
(* step_size.                                                              *)
(***************************************************************************)
\* linear_interpolation
linear_interpolation(x, x1, x2, y1, y2) ==
    Then(op_sub(x2, x1), LAMBDA dx :
        Then(op_sub(y2, y1), LAMBDA dy :
            Then(op_sub(x, x1), LAMBDA d :
                Then(op_div(d, dx), LAMBDA t :
                    Then(op_mul(t, dy), LAMBDA m : op_add(y1, m))))))

\* `as usize` of a count: a negative count wraps to a huge one
as_usize(n) == IF n < 0 THEN n + Pow(2, Bits + 1) ELSE n

Built(l) == [tag |-> "Value", raw |-> 0, err |-> "none", lookup |-> l]

\* LookupTable::new; a sample whose f(x) does not return ends the construction
LookupTable_new(start, end, step_size, f(_)) ==
    Then(op_sub(end, start), LAMBDA d :
        Then(op_div(d, step_size), LAMBDA q :
            Let(as_usize(to_i128(q)), LAMBDA size :
                IF size > MaxRaw THEN Panic("capacity overflow")
                ELSE Let([i \in 1..size |->
                             Then(mul_i128(step_size, i - 1), LAMBDA m :
                                 Then(op_add(start, m), f))],
                         LAMBDA samples :
                    LET failed == {i \in 1..size : samples[i].tag /= "Value"}
                    IN IF failed /= {}
                       THEN samples[CHOOSE i \in failed : \A j \in failed : i <= j]
                       ELSE Built([table |-> [i \in 1..size |-> samples[i].raw],
                                   start |-> start, end |-> end,
                                   step_size |-> step_size])))))

\* get_index without its range check
get_index_without_range_check(l, x) ==
    OkOf(Then(op_sub(x, l.start), LAMBDA d :
             Then(op_div(d, l.step_size), LAMBDA q : Value(as_usize(to_i128(q))))))

\* LookupTable::get_index
get_index(l, x) ==
    IF x < l.start \/ x > l.end THEN Err("OutOfRange")
    ELSE OkOf(Then(op_sub(x, l.start), LAMBDA d :
                 Then(op_div(d, l.step_size), LAMBDA q : Value(as_usize(to_i128(q))))))

\* table[index]
At(table, index) ==
    IF index < Len(table) THEN Value(table[index + 1])
    ELSE Panic("index out of bounds")

\* Function for SqrtLinearInterpLookupTable
SqrtLinearInterpLookupTable_evaluate(l, x) ==
    Let(get_index(l, x), LAMBDA found :
        LET index == found.raw
        IN IF found.tag = "Err" THEN Panic("Index not found")
           ELSE IF IsPanic(found) THEN found
           ELSE IF index + 1 >= Len(l.table) THEN At(l.table, index)
           ELSE Then(mul_i128(l.step_size, index), LAMBDA m :
                    Then(op_add(m, l.start), LAMBDA lower_value :
                        Then(op_add(lower_value, l.step_size), LAMBDA upper_value :
                            linear_interpolation(x, lower_value, upper_value,
                                                 l.table[index + 1], l.table[index + 2])))))

\* TryFunction for SqrtLinearInterpLookupTable
SqrtLinearInterpLookupTable_try_evaluate(l, x) ==
    Let(get_index(l, x), LAMBDA found :
        LET index == found.raw
        IN IF found.tag = "Err" THEN found
           ELSE IF IsPanic(found) THEN found
           ELSE IF index + 1 >= Len(l.table) THEN OkOf(At(l.table, index))
           ELSE OkOf(Then(mul_i128(l.step_size, index), LAMBDA m :
                    Then(op_add(m, l.start), LAMBDA lower_value :
                        Then(op_add(lower_value, l.step_size), LAMBDA upper_value :
                            linear_interpolation(x, lower_value, upper_value,
                                                 l.table[index + 1], l.table[index + 2]))))))

\* SqrtLinearInterpLookupTable::new
SqrtLinearInterpLookupTable_new(start, end, step_size, depth) ==
    LookupTable_new(start, end, step_size, LAMBDA x : sqrt_newton_raphson(x, depth))

\* ExpLinearInterpLookupTable::new
ExpLinearInterpLookupTable_new(start, end, step_size, order) ==
    LookupTable_new(start, end, step_size, LAMBDA x : range_reduce_taylor_exp(x, order))

\* Function for ExpLinearInterpLookupTable: no check of index + 1 against
\* the length; the arguments of linear_interpolation are evaluated in order
ExpLinearInterpLookupTable_evaluate(l, x) ==
    Let(get_index(l, x), LAMBDA found :
        LET index == found.raw
        IN IF found.tag = "Err" THEN Panic("Index not found")
           ELSE IF IsPanic(found) THEN found
           ELSE Then(mul_i128(l.step_size, index), LAMBDA m :
                    Then(op_add(m, l.start), LAMBDA lower_value :
                        Then(op_add(lower_value, l.step_size), LAMBDA upper_value :
                            Then(At(l.table, index), LAMBDA y1 :
                                Then(At(l.table, index + 1), LAMBDA y2 :
                                    linear_interpolation(x, lower_value, upper_value,
                                                         y1, y2)))))))

\* LnLinearInterpLookupTable::new
LnLinearInterpLookupTable_new(start, end, step_size, depth) ==
    LookupTable_new(start, end, step_size, LAMBDA x : range_reduce_arctanh_ln(x, depth))

\* Function for LnLinearInterpLookupTable
LnLinearInterpLookupTable_evaluate(l, x) ==
    Let(get_index(l, x), LAMBDA found :
        LET index == found.raw
        IN IF found.tag = "Err" THEN Panic("Index not found")
           ELSE IF IsPanic(found) THEN found
           ELSE Then(mul_i128(l.step_size, index), LAMBDA m :
                    Then(op_add(m, l.start), LAMBDA lower_value :
                        Then(op_add(lower_value, l.step_size), LAMBDA upper_value :
                            Then(At(l.table, index), LAMBDA y1 :
                                Then(At(l.table, index + 1), LAMBDA y2 :
                                    linear_interpolation(x, lower_value, upper_value,
                                                         y1, y2)))))))

(***************************************************************************)
(* CDF: the 13-coefficient polynomial-logistic form and its table.         *)
(***************************************************************************)
\* the literals of CDFCustomAprox::new
CoefficientStrings ==
    <<
       <<"-", "0", ".", "0", "0", "0", "0", "0", "0", "0",
         "0", "4", "3", "6", "9", "5", "3", "4", "7", "9">>,
       <<"1", ".", "5", "9", "5", "7", "6", "9", "6", "2",
         "0", "0", "0", "0", "0", "0", "0", "0", "0">>,
       <<"-", "0", ".", "0", "0", "0", "0", "0", "9", "5",
         "5", "4", "0", "4", "6", "0", "1">>,
       <<"0", ".", "0", "7", "2", "7", "4", "1", "6", "9",
         "9", "9", "0", "0", "0", "0", "0", "0", "0">>,
       <<"-", "0", ".", "0", "0", "0", "2", "6", "5", "6",
         "5", "0", "2", "3", "9", "0", "0", "0", "0", "0">>,
       <<"0", ".", "0", "0", "0", "5", "0", "8", "5", "7",
         "0", "9", "4", "0", "0", "0", "0", "0", "0">>,
       <<"-", "0", ".", "0", "0", "0", "7", "9", "6", "5",
         "3", "3", "8", "5", "5", "0", "0", "0", "0", "0">>,
       <<"0", ".", "0", "0", "0", "5", "9", "7", "7", "8",
         "4", "8", "8", "7", "0", "0", "0", "0", "0">>,
       <<"-", "0", ".", "0", "0", "0", "4", "0", "0", "7",
         "7", "2", "3", "0", "6", "0", "0", "0", "0", "0">>,
       <<"0", ".", "0", "0", "0", "1", "4", "9", "6", "5",
         "6", "5", "8", "0", "0", "0", "0", "0", "0">>,
       <<"-", "0", ".", "0", "0", "0", "0", "2", "9", "8",
         "8", "7", "9", "6", "0", "7", "0", "0", "0", "0">>,
       <<"0", ".", "0", "0", "0", "0", "0", "3", "0", "6",
         "4", "9", "4", "3", "5", "2", "0", "0", "0">>,
       <<"-", "0", ".", "0", "0", "0", "0", "0", "0", "1",
         "2", "7", "8", "3", "4", "0", "4", "9", "0", "0">>
    >>

\* FixedDecimal::from_str(..).unwrap()
unwrap(r) ==
    CHOOSE out \in {IF v.tag = "Err" THEN Panic("unwrap on Err")
                    ELSE IF v.tag = "Ok" THEN Value(v.raw) ELSE v : v \in {r}} : TRUE

\* CDFCustomAprox::new: the coefficients, or the first panic among them
CDFCustomAprox_new ==
    Let([i \in 1..Len(CoefficientStrings) |-> unwrap(from_str(CoefficientStrings[i]))],
        LAMBDA parsed :
            LET failed == {i \in 1..Len(parsed) : parsed[i].tag /= "Value"}
            IN IF failed /= {}
               THEN parsed[CHOOSE i \in failed : \A j \in failed : i <= j]
               ELSE [tag |-> "Value", raw |-> 0, err |-> "none",
                     coefficients |-> [i \in 1..Len(parsed) |-> parsed[i].raw]])

\* the loop variables: raw is `result`
PolynomialVars(result, x_n) ==
    [tag |-> "Value", raw |-> result, err |-> "none", x_n |-> x_n]

\* one pass of the loop body: result += coefficient * x_n; x_n *= x
polynomial_pass(x, coefficients, st, i) ==
    Then(op_mul(coefficients[i], st.x_n), LAMBDA m :
        Then(add_assign(st.raw, m), LAMBDA acc :
            Then(mul_assign(st.x_n, x), LAMBDA next : PolynomialVars(acc, next))))

\* for coefficient in coefficients[1..].iter() { .. }: the passes lo..hi in
\* order, from the loop variables st; a pass that panics ends the loop
RECURSIVE polynomial_loop(_, _, _, _, _)
polynomial_loop(x, coefficients, st, lo, hi) ==
    IF lo > hi THEN st
    ELSE IF lo = hi THEN polynomial_pass(x, coefficients, st, lo)
    ELSE Let(polynomial_loop(x, coefficients, st, lo, (lo + hi) \div 2), LAMBDA half :
             IF IsPanic(half) THEN half
             ELSE polynomial_loop(x, coefficients, half, (lo + hi) \div 2 + 1, hi))

\* FixedDecimal::polynomial
polynomial(x, coefficients) ==
    polynomial_loop(x, coefficients, PolynomialVars(coefficients[1], x), 2, Len(coefficients))

\* the order of the Taylor series topher_cdf asks for
TopherTaylorOrder == 30

\* topher_cdf on x >= 0
topher_cdf_nonneg(x, coefficients) ==
    Then(polynomial(x, coefficients), LAMBDA f :
        Then(neg(f), LAMBDA nf :
            Then(range_reduce_taylor_exp(nf, TopherTaylorOrder), LAMBDA denominator_exponent :
                Then(op_add(one, denominator_exponent), LAMBDA den : op_div(one, den)))))

\* topher_cdf: a negative x is reflected once, 1 - topher_cdf(-x)
topher_cdf(x, coefficients) ==
    IF x < 0 * scale
    THEN Then(neg(x), LAMBDA nx :
             IF nx < 0 * scale
             THEN Panic("stack overflow")
             ELSE Then(topher_cdf_nonneg(nx, coefficients), LAMBDA c : op_sub(one, c)))
    ELSE topher_cdf_nonneg(x, coefficients)

\* Function for CDFCustomAprox
CDFCustomAprox_evaluate(coefficients, x) ==
    Then(unwrap(from_str(<<"-", "6">>)), LAMBDA lo :
        IF x < lo THEN Value(zero)
        ELSE Then(unwrap(from_str(<<"6">>)), LAMBDA hi :
                 IF x > hi THEN Value(one)
                 ELSE topher_cdf(x, coefficients)))

\* TryFunction for CDFCustomAprox
CDFCustomAprox_try_evaluate(coefficients, x) == OkOf(CDFCustomAprox_evaluate(coefficients, x))

\* CDFLinearInterpLookupTable::new
CDFLinearInterpLookupTable_new(end, step_size) ==
    Let(CDFCustomAprox_new, LAMBDA custom_aprox :
        IF IsPanic(custom_aprox) THEN custom_aprox
        ELSE LookupTable_new(zero, end, step_size,
                 LAMBDA x : CDFCustomAprox_evaluate(custom_aprox.coefficients, x)))

\* CDFLinearInterpLookupTable::evaluate on x >= 0
cdf_table_nonneg(l, x) ==
    IF x >= l.end THEN Value(one)
    ELSE Let(get_index(l, x), LAMBDA found :
         LET index == found.raw
         IN IF found.tag = "Err" THEN Panic("Index not found")
            ELSE IF IsPanic(found) THEN found
            ELSE IF index + 1 >= Len(l.table) THEN At(l.table, index)
            ELSE Then(mul_i128(l.step_size, index), LAMBDA m :
                     Then(op_add(m, l.start), LAMBDA lower_value :
                         Then(op_add(lower_value, l.step_size), LAMBDA upper_value :
                             linear_interpolation(x, lower_value, upper_value,
                                                  l.table[index + 1], l.table[index + 2])))))

\* Function for CDFLinearInterpLookupTable
CDFLinearInterpLookupTable_evaluate(l, x) ==
    IF x < 0 * scale
    THEN Then(neg(x), LAMBDA nx :
             IF nx < 0 * scale
             THEN Panic("stack overflow")
             ELSE Then(cdf_table_nonneg(l, nx), LAMBDA c : op_sub(one, c)))
    ELSE cdf_table_nonneg(l, x)

\* CDFLinearInterpLookupTable::try_evaluate on x >= 0
cdf_table_try_nonneg(l, x) ==
    IF x >= l.end THEN Ok(one)
    ELSE Let(get_index(l, x), LAMBDA found :
         LET index == found.raw
         IN IF found.tag = "Err" THEN found
            ELSE IF IsPanic(found) THEN found
            ELSE IF index + 1 >= Len(l.table) THEN OkOf(At(l.table, index))
            ELSE OkOf(Then(mul_i128(l.step_size, index), LAMBDA m :
                     Then(op_add(m, l.start), LAMBDA lower_value :
                         Then(op_add(lower_value, l.step_size), LAMBDA upper_value :
                             linear_interpolation(x, lower_value, upper_value,
                                                  l.table[index + 1], l.table[index + 2]))))))

\* TryFunction for CDFLinearInterpLookupTable: map(|v| one - v) on the reflection
CDFLinearInterpLookupTable_try_evaluate(l, x) ==
    IF x < 0 * scale
    THEN Then(neg(x), LAMBDA nx :
             IF nx < 0 * scale THEN Panic("stack overflow")
             ELSE Let(cdf_table_try_nonneg(l, nx), LAMBDA v :
                      IF v.tag = "Ok" THEN OkOf(op_sub(one, v.raw)) ELSE v))
    ELSE cdf_table_try_nonneg(l, x)

(***************************************************************************)
(* The calls.  The library is synchronous and keeps no state between       *)
(* calls: from the idle state each action applies one operation to inputs  *)
(* of its choice and records the inputs and every outcome in `call`;       *)
(* Return hands control back to the caller.  A table-backed function owns  *)
(* one LookupTable, held in `lookup` from its construction on.  The calls  *)
(* that take no table neither read nor write `lookup`; they are explored   *)
(* from the table-free state only.                                         *)
(***************************************************************************)
Idle == [fn |-> "none"]

\* the next representable value above x (the largest one has none)
Succ(x) == IF x < MaxRaw THEN x + 1 ELSE x

NoTable == [kind |-> "none"]
Table(kind, l) == [kind |-> kind, table |-> l.table, start |-> l.start,
                   end |-> l.end, step_size |-> l.step_size]

Init ==
    /\ overflow_checks \in BOOLEAN
    /\ PRECISION \in 1..MaxPrecision
    /\ lookup = NoTable
    /\ call = Idle

\* SqrtLinearInterpLookupTable::new: the table exists once new returns
NewSqrtTable ==
    /\ call = Idle /\ lookup = NoTable
    /\ \E start \in TableStarts, end \in TableEnds, step_size \in TableSteps :
          \E t \in {SqrtLinearInterpLookupTable_new(start, end, step_size, MaxDepth)} :
             /\ call' = [fn |-> "new_sqrt_table", start |-> start, end |-> end,
                         step_size |-> step_size, out |-> t.tag]
             /\ lookup' = IF t.tag = "Value" THEN Table("sqrt", t.lookup) ELSE NoTable
    /\ UNCHANGED <<overflow_checks, PRECISION>>

\* CDFLinearInterpLookupTable::new
NewCdfTable ==
    /\ call = Idle /\ lookup = NoTable
    /\ \E end \in TableEnds, step_size \in TableSteps :
          \E t \in {CDFLinearInterpLookupTable_new(end, step_size)} :
             /\ call' = [fn |-> "new_cdf_table", start |-> zero, end |-> end,
                         step_size |-> step_size, out |-> t.tag]
             /\ lookup' = IF t.tag = "Value" THEN Table("cdf", t.lookup) ELSE NoTable
    /\ UNCHANGED <<overflow_checks, PRECISION>>

\* ExpLinearInterpLookupTable::new
NewExpTable ==
    /\ call = Idle /\ lookup = NoTable
    /\ \E start \in TableStarts, end \in TableEnds, step_size \in TableSteps :
          \E t \in {ExpLinearInterpLookupTable_new(start, end, step_size, MaxDepth)} :
             /\ call' = [fn |-> "new_exp_table", start |-> start, end |-> end,
                         step_size |-> step_size, out |-> t.tag]
             /\ lookup' = IF t.tag = "Value" THEN Table("exp", t.lookup) ELSE NoTable
    /\ UNCHANGED <<overflow_checks, PRECISION>>

\* LnLinearInterpLookupTable::new
NewLnTable ==
    /\ call = Idle /\ lookup = NoTable
    /\ \E start \in TableStarts, end \in TableEnds, step_size \in TableSteps :
          \E t \in {LnLinearInterpLookupTable_new(start, end, step_size, MaxDepth)} :
             /\ call' = [fn |-> "new_ln_table", start |-> start, end |-> end,
                         step_size |-> step_size, out |-> t.tag]
             /\ lookup' = IF t.tag = "Value" THEN Table("ln", t.lookup) ELSE NoTable
    /\ UNCHANGED <<overflow_checks, PRECISION>>

ExpTableCall ==
    /\ call = Idle /\ lookup.kind = "exp"
    /\ \E x \in Raw :
          call' = [fn |-> "exp_table", x |-> x,
                   get_index |-> get_index(lookup, x),
                   evaluate |-> ExpLinearInterpLookupTable_evaluate(lookup, x)]
    /\ UNCHANGED <<overflow_checks, PRECISION, lookup>>

LnTableCall ==
    /\ call = Idle /\ lookup.kind = "ln"
    /\ \E x \in Raw :
          call' = [fn |-> "ln_table", x |-> x,
                   get_index |-> get_index(lookup, x),
                   evaluate |-> LnLinearInterpLookupTable_evaluate(lookup, x)]
    /\ UNCHANGED <<overflow_checks, PRECISION, lookup>>

SqrtTableCall ==
    /\ call = Idle /\ lookup.kind = "sqrt"
    /\ \E x \in Raw :
          call' = [fn |-> "sqrt_table", x |-> x,
                   get_index |-> get_index(lookup, x),
                   evaluate |-> SqrtLinearInterpLookupTable_evaluate(lookup, x),
                   try_evaluate |-> SqrtLinearInterpLookupTable_try_evaluate(lookup, x)]
    /\ UNCHANGED <<overflow_checks, PRECISION, lookup>>

CdfTableCall ==
    /\ call = Idle /\ lookup.kind = "cdf"
    /\ \E x \in Raw :
          call' = [fn |-> "cdf_table", x |-> x,
                   get_index |-> get_index(lookup, x),
                   evaluate |-> CDFLinearInterpLookupTable_evaluate(lookup, x),
                   try_evaluate |-> CDFLinearInterpLookupTable_try_evaluate(lookup, x),
                   evaluate_next |-> CDFLinearInterpLookupTable_evaluate(lookup, Succ(x)),
                   reflected |-> Then(neg(x), LAMBDA nx :
                                     CDFLinearInterpLookupTable_evaluate(lookup, nx))]
    /\ UNCHANGED <<overflow_checks, PRECISION, lookup>>

\* CDFCustomAprox::new() followed by evaluate / try_evaluate of x and
\* evaluate of -x and of the next value above x
CdfCall ==
    /\ call = Idle /\ lookup = NoTable
    /\ \E x \in Raw, c \in {CDFCustomAprox_new} :
             call' = [fn |-> "cdf", x |-> x,
                      evaluate |-> IF IsPanic(c) THEN c
                                   ELSE CDFCustomAprox_evaluate(c.coefficients, x),
                      try_evaluate |-> IF IsPanic(c) THEN c
                                       ELSE CDFCustomAprox_try_evaluate(c.coefficients, x),
                      evaluate_next |-> IF IsPanic(c) THEN c
                                        ELSE CDFCustomAprox_evaluate(c.coefficients, Succ(x)),
                      reflected |-> IF IsPanic(c) THEN c
                                    ELSE Then(neg(x), LAMBDA nx :
                                             CDFCustomAprox_evaluate(c.coefficients, nx))]
    /\ UNCHANGED <<overflow_checks, PRECISION, lookup>>

ToStringCall ==
    /\ call = Idle /\ lookup = NoTable
    /\ \E x \in Raw :
          \E s \in {to_string(x)} :
             call' = [fn |-> "to_string", x |-> x, out |-> s,
                      back |-> IF s.tag = "Value" THEN from_str(s.str)
                               ELSE Panic(s.err)]
    /\ UNCHANGED <<overflow_checks, PRECISION, lookup>>

\* the text of a decimal number: an optional '-', the integer part and,
\* when there are fractional digits, a '.' and the digits
DecimalString(negative, integer, fraction) ==
    (IF negative THEN <<"-">> ELSE <<>>) \o integer
        \o (IF Len(fraction) > 0 THEN <<".">> \o fraction ELSE <<>>)

\* from_str of a decimal string, and of the same string cut after its
\* first PRECISION fractional digits
FromStrCall ==
    /\ call = Idle /\ lookup = NoTable
    /\ \E negative \in BOOLEAN, n \in 0..MaxIntegerPart, fraction \in Fractions :
          call' = [fn |-> "from_str", negative |-> negative, integer |-> Dec(n),
                   fraction |-> fraction,
                   out |-> from_str(DecimalString(negative, Dec(n), fraction)),
                   cut |-> from_str(DecimalString(negative, Dec(n),
                               IF Len(fraction) > PRECISION
                               THEN SubSeq(fraction, 1, PRECISION)
                               ELSE fraction))]
    /\ UNCHANGED <<overflow_checks, PRECISION, lookup>>

\* x << k, x >> k and x / 2^k for a shift count within the integer width,
\* two_pow_k(k) and two_pow_k(-k)
ShiftCall ==
    /\ call = Idle /\ lookup = NoTable
    /\ \E x \in Raw, k \in 0..(Bits - 1) :
          call' = [fn |-> "shift", x |-> x, k |-> k,
                   shl |-> shl(x, k), shr |-> shr(x, k),
                   div |-> IF k < Bits - 1 THEN div_i128(x, Pow(2, k))
                           ELSE Panic("2^k is not an i128"),
                   two_pow_k |-> two_pow_k(k),
                   two_pow_minus_k |-> two_pow_k(-k)]
    /\ UNCHANGED <<overflow_checks, PRECISION, lookup>>

AddCall ==
    /\ call = Idle /\ lookup = NoTable
    /\ \E a \in Operands, b \in Operands :
          call' = [fn |-> "add", a |-> a, b |-> b,
                   method |-> add(a, b), operator |-> op_add(a, b),
                   assign |-> add_assign(a, b), checked |-> checked_add(a, b)]
    /\ UNCHANGED <<overflow_checks, PRECISION, lookup>>

SubCall ==
    /\ call = Idle /\ lookup = NoTable
    /\ \E a \in Operands, b \in Operands :
          call' = [fn |-> "sub", a |-> a, b |-> b,
                   method |-> sub(a, b), operator |-> op_sub(a, b),
                   assign |-> sub_assign(a, b), checked |-> checked_sub(a, b)]
    /\ UNCHANGED <<overflow_checks, PRECISION, lookup>>

MulCall ==
    /\ call = Idle /\ lookup = NoTable
    /\ \E a \in Operands, b \in Operands :
          call' = [fn |-> "mul", a |-> a, b |-> b,
                   method |-> mul(a, b), operator |-> op_mul(a, b),
                   assign |-> mul_assign(a, b), checked |-> checked_mul(a, b)]
    /\ UNCHANGED <<overflow_checks, PRECISION, lookup>>

DivCall ==
    /\ call = Idle /\ lookup = NoTable
    /\ \E a \in Operands, b \in Operands :
          call' = [fn |-> "div", a |-> a, b |-> b,
                   method |-> div(a, b), operator |-> op_div(a, b),
                   assign |-> div_assign(a, b), checked |-> checked_div(a, b)]
    /\ UNCHANGED <<overflow_checks, PRECISION, lookup>>

SqrtCall ==
    /\ call = Idle /\ lookup = NoTable
    /\ \E x \in Raw, depth \in 0..MaxDepth :
          call' = [fn |-> "sqrt", x |-> x, depth |-> depth,
                   evaluate |-> SqrtNewtonRaphson_evaluate(x, depth),
                   evaluate_next |-> SqrtNewtonRaphson_evaluate(Succ(x), depth),
                   try_evaluate |-> SqrtNewtonRaphson_try_evaluate(x, depth),
                   try_iters |-> sqrt_newton_raphson_try_run(x, depth).iters,
                   checked_sqrt |-> checked_sqrt_run(x, depth).res,
                   checked_iters |-> checked_sqrt_run(x, depth).iters]
    /\ UNCHANGED <<overflow_checks, PRECISION, lookup>>

LnCall ==
    /\ call = Idle /\ lookup = NoTable
    /\ \E x \in Raw, depth \in 0..MaxDepth :
          call' = [fn |-> "ln", x |-> x, depth |-> depth,
                   reduced |-> ln_range_reduction(x),
                   evaluate |-> LnArcTanhExpansion_evaluate(x, depth)]
    /\ UNCHANGED <<overflow_checks, PRECISION, lookup>>

ExpCall ==
    /\ call = Idle /\ lookup = NoTable
    /\ \E x \in Raw, order \in 0..MaxDepth :
          call' = [fn |-> "exp", x |-> x, order |-> order,
                   reduced |-> exp_range_reduction(x),
                   evaluate |-> ExpRangeReduceTaylor_evaluate(x, order),
                   evaluate_next |-> ExpRangeReduceTaylor_evaluate(Succ(x), order)]
    /\ UNCHANGED <<overflow_checks, PRECISION, lookup>>

Return ==
    /\ call /= Idle
    /\ call' = Idle
    /\ UNCHANGED <<overflow_checks, PRECISION, lookup>>

Next ==
    \/ ToStringCall
    \/ FromStrCall
    \/ ShiftCall
    \/ AddCall
    \/ SubCall
    \/ MulCall
    \/ DivCall
    \/ SqrtCall
    \/ NewSqrtTable
    \/ NewCdfTable
    \/ NewExpTable
    \/ NewLnTable
    \/ SqrtTableCall
    \/ ExpTableCall
    \/ LnTableCall
    \/ CdfTableCall
    \/ CdfCall
    \/ LnCall
    \/ ExpCall
    \/ Return

Spec == Init /\ [][Next]_vars

(***************************************************************************)
(* The claims.                                                             *)
(***************************************************************************)
\* the text the encoding rules prescribe for x: a '-' exactly when x < 0,
\* the integer part of the magnitude, and, when the fractional part is not
\* zero, a '.' and the P-digit zero-padded fraction without trailing zeros
Magnitude(x) == IF x < 0 THEN -x ELSE x
Canonical(x) ==
    (IF x < 0 THEN <<"-">> ELSE <<>>)
    \o Dec(Magnitude(x) \div scale)
    \o (IF Magnitude(x) % scale = 0 THEN <<>>
        ELSE <<".">> \o TrimEndZeros(FormatPadded(Magnitude(x) % scale, PRECISION)))

\* C1: for every representable x (positive, zero, negative, and strictly
\* between -1 and 0), from_str(to_string(x)) succeeds and returns the raw
\* integer of x.  (Stated for every x above the minimum, whose to_string
\* does not overflow in abs().)
C1_RoundTrip ==
    call.fn = "to_string" /\ call.x > MinRaw => call.back = Ok(call.x)

\* C2: to_string(x) starts with '-' exactly when x < 0, prints the integer
\* part alone when the fraction is zero, and otherwise the integer part, a
\* '.', and the zero-padded fraction with its trailing zeros removed.
\* (Stated for every x above the minimum.)
C2_ToStringFormat ==
    call.fn = "to_string" /\ call.x > MinRaw =>
        /\ call.out.tag = "Value"
        /\ (call.out.str[1] = "-") <=> (call.x < 0)
        /\ call.out.str = Canonical(call.x)

\* q is n / d truncated toward zero: the integer of largest magnitude with
\* |q| * |d| <= |n|, carrying the sign of the exact quotient
IsTruncQuot(n, d, q) ==
    /\ Magnitude(q) * Magnitude(d) <= Magnitude(n)
    /\ Magnitude(n) < (Magnitude(q) + 1) * Magnitude(d)
    /\ q = 0 \/ ((q > 0) = ((n > 0) = (d > 0)))

AllForms(r) == call.method = r /\ call.operator = r /\ call.assign = r

\* C3: when the intermediate values fit the integer width, a+b and a-b are
\* the raw sum and difference, a*b is raw(a)*raw(b) / 10^P and a/b is
\* raw(a)*10^P / raw(b), both truncated toward zero; the named method, the
\* operator and the *_assign form agree.
C3_UncheckedArithmetic ==
    /\ call.fn = "add" /\ Fits(call.a + call.b) => AllForms(Value(call.a + call.b))
    /\ call.fn = "sub" /\ Fits(call.a - call.b) => AllForms(Value(call.a - call.b))
    /\ call.fn = "mul" /\ Fits(call.a * call.b) =>
          /\ call.method.tag = "Value"
          /\ IsTruncQuot(call.a * call.b, scale, call.method.raw)
          /\ AllForms(call.method)
    /\ call.fn = "div" /\ Fits(call.a * scale) /\ call.b /= 0
                       /\ ~(call.a * scale = MinRaw /\ call.b = -1) =>
          /\ call.method.tag = "Value"
          /\ IsTruncQuot(call.a * scale, call.b, call.method.raw)
          /\ AllForms(call.method)

\* a product and a quotient that are negative and not exact, so that
\* truncation toward zero differs from rounding down
C3_Witness ==
    \/ /\ call.fn = "mul" /\ call.a * call.b < 0 /\ Fits(call.a * call.b)
       /\ (call.a * call.b) % scale /= 0 /\ call.operator.tag = "Value"
    \/ /\ call.fn = "div" /\ call.a < 0 /\ call.b > 0 /\ Fits(call.a * scale)
       /\ (call.a * scale) % call.b /= 0 /\ call.operator.tag = "Value"

\* C4: whenever the truncated scaled product raw(a)*raw(b) / 10^P fits the
\* integer width, mul returns it and checked_mul returns Ok of it.
C4_MulNoIntermediateOverflow ==
    call.fn = "mul" /\ Fits(TruncDiv(call.a * call.b, scale)) =>
        /\ call.method = Value(TruncDiv(call.a * call.b, scale))
        /\ call.checked = Ok(TruncDiv(call.a * call.b, scale))

\* C5: checked_add / checked_sub return Err(Overflow) exactly when the exact
\* sum / difference is out of range and otherwise Ok of what add / sub give;
\* checked_div returns Err(DivideByZero) exactly when the divisor is 0 and
\* otherwise Ok of what div gives.
C5_CheckedArithmetic ==
    /\ call.fn \in {"add", "sub"} =>
          LET exact == IF call.fn = "add" THEN call.a + call.b ELSE call.a - call.b
          IN /\ (call.checked = Err("Overflow")) <=> ~Fits(exact)
             /\ Fits(exact) => call.checked = Ok(exact) /\ call.method = Value(exact)
    /\ call.fn = "div" =>
          /\ (call.checked = Err("DivideByZero")) <=> (call.b = 0)
          /\ call.b /= 0 => call.checked.tag = "Ok"
          /\ call.b /= 0 => call.checked.raw = call.method.raw

\* C8: for every x < 0, checked_sqrt and SqrtNewtonRaphson::try_evaluate
\* return Err(DomainError) without entering the iteration; for x = 0 they
\* return Ok(0).
C8_SqrtDomain ==
    call.fn = "sqrt" =>
        /\ call.x < 0 =>
              /\ call.try_evaluate = Err("DomainError") /\ call.try_iters = 0
              /\ call.checked_sqrt = Err("DomainError") /\ call.checked_iters = 0
        /\ call.x = 0 =>
              /\ call.try_evaluate = Ok(0) /\ call.checked_sqrt = Ok(0)

\* a negative input, with a positive depth, on which the unchecked
\* iteration would have run
C8_Witness ==
    /\ call.fn = "sqrt" /\ call.x < 0 /\ call.depth > 0
    /\ call.try_evaluate.tag = "Err" /\ call.evaluate.tag = "Value"

\* C10: for every x < 0, the unchecked sqrt_newton_raphson(x) aborts and
\* never returns a value.  (Stated with at least one iteration.)
C10_UncheckedSqrtAborts ==
    call.fn = "sqrt" /\ call.x < 0 /\ call.depth > 0 => IsPanic(call.evaluate)

\* C9: ln of x = 0 or of a negative x fails with a domain error; it never
\* panics and never returns a numeric value.
C9_LnDomain ==
    call.fn = "ln" /\ call.x <= 0 => call.evaluate = Err("DomainError")

\* C6: try_evaluate of SqrtNewtonRaphson, SqrtLinearInterpLookupTable,
\* CDFCustomAprox and CDFLinearInterpLookupTable returns Ok or a typed
\* error for every input; it never aborts.
C6_TryEvaluateNeverAborts ==
    call.fn \in {"sqrt", "sqrt_table", "cdf", "cdf_table"} =>
        call.try_evaluate.tag \in {"Ok", "Err"}

\* C7: wherever evaluate returns a value, try_evaluate returns Ok of the
\* same raw value; wherever evaluate aborts, try_evaluate returns Err.
\* (The direct square root is taken with at least one iteration.)
C7_EvaluateTryEvaluateAgree ==
    call.fn \in {"sqrt", "sqrt_table", "cdf", "cdf_table"}
    /\ (call.fn = "sqrt" => call.depth > 0) =>
        /\ call.evaluate.tag = "Value" => call.try_evaluate = Ok(call.evaluate.raw)
        /\ call.evaluate.tag = "Panic" => call.try_evaluate.tag = "Err"

\* C11: the fixed points are exact for every precision and every series or
\* iteration depth: range_reduce_taylor_exp(0) = 1, range_reduce_arctanh_ln(1)
\* = 0, sqrt_newton_raphson(0) = 0 and sqrt_newton_raphson_try(0) = Ok(0).
C11_FixedPoints ==
    /\ call.fn = "exp" /\ call.x = zero => call.evaluate = Value(one)
    /\ call.fn = "ln" /\ call.x = one => call.evaluate = Value(zero)
    /\ call.fn = "sqrt" /\ call.x = zero =>
           /\ call.evaluate = Value(zero)
           /\ call.try_evaluate = Ok(zero)

\* C12: CDF(0) is exactly one half for every precision: CDFCustomAprox::evaluate(0)
\* and CDFLinearInterpLookupTable::evaluate(0) return the raw value 10^P / 2.
C12_CdfOfZeroIsHalf ==
    call.fn \in {"cdf", "cdf_table"} /\ call.x = zero =>
        call.evaluate = Value(scale \div 2)

\* C13: CDF symmetry: for every x both CDF(x) and CDF(-x) return and
\* CDF(-x) + CDF(x) = 1 exactly, for CDFCustomAprox::evaluate and for
\* CDFLinearInterpLookupTable::evaluate.
C13_CdfSymmetry ==
    call.fn \in {"cdf", "cdf_table"} /\ call.x > MinRaw =>
        /\ IsValue(call.evaluate)
        /\ IsValue(call.reflected)
        /\ call.evaluate.raw + call.reflected.raw = one

\* C14: monotonicity: for representable x1 < x2 in the domain,
\* sqrt_newton_raphson(x1) < sqrt_newton_raphson(x2) (x1 >= 0),
\* range_reduce_taylor_exp(x1) < range_reduce_taylor_exp(x2), and
\* CDF(x1) <= CDF(x2) for the CDF evaluators.  Stated on each x1 and the
\* next representable value x2 above it, where both calls return; the
\* square root is taken with at least one iteration.
C14_Monotonicity ==
    call.fn \in {"sqrt", "exp", "cdf", "cdf_table"} /\ call.x < MaxRaw
    /\ IsValue(call.evaluate) /\ IsValue(call.evaluate_next) =>
        /\ call.fn = "sqrt" /\ call.x >= zero /\ call.depth > 0 =>
               call.evaluate.raw < call.evaluate_next.raw
        /\ call.fn = "exp" => call.evaluate.raw < call.evaluate_next.raw
        /\ call.fn \in {"cdf", "cdf_table"} =>
               call.evaluate.raw <= call.evaluate_next.raw

\* the function a table of the given kind samples
Sampled(kind, x) ==
    IF kind = "sqrt" THEN sqrt_newton_raphson(x, MaxDepth)
    ELSE IF kind = "exp" THEN range_reduce_taylor_exp(x, MaxDepth)
    ELSE IF kind = "ln" THEN range_reduce_arctanh_ln(x, MaxDepth)
    ELSE Let(CDFCustomAprox_new, LAMBDA c :
             IF IsPanic(c) THEN c ELSE CDFCustomAprox_evaluate(c.coefficients, x))

\* C15: after LookupTable::new(start, end, step, f) the table holds exactly
\* floor((end - start) / step) samples, sample i is f(start + i * step) for
\* every i below that count, and the stored start, end and step are the
\* arguments.
C15_TableConstruction ==
    /\ call.fn \in {"new_sqrt_table", "new_exp_table", "new_ln_table", "new_cdf_table"}
       /\ call.out = "Value" =>
           /\ lookup.start = call.start
           /\ lookup.end = call.end
           /\ lookup.step_size = call.step_size
    /\ lookup.kind /= "none" =>
           /\ Len(lookup.table) = (lookup.end - lookup.start) \div lookup.step_size
           /\ \A i \in 0..(Len(lookup.table) - 1) :
                 Value(lookup.table[i + 1])
                     = Sampled(lookup.kind, lookup.start + i * lookup.step_size)

\* C15, second half: get_index and every evaluate / try_evaluate leave the
\* table, start, end and step unchanged.
C15_TableImmutable == [][lookup.kind /= "none" => lookup' = lookup]_vars

\* C16: lenient out-of-bounds policy of the unchecked table path: for the
\* Sqrt, Ln and Exp table-backed functions evaluate(x) with x below start
\* returns the first sample and evaluate(x) with x at or above end returns
\* the last sample; it does not abort.
C16_LenientOutOfBounds ==
    call.fn \in {"sqrt_table", "exp_table", "ln_table"} =>
        /\ call.x < lookup.start => call.evaluate = At(lookup.table, 0)
        /\ call.x >= lookup.end =>
               call.evaluate = At(lookup.table, Len(lookup.table) - 1)

\* C16 as the code has it: for the Sqrt, Ln and Exp table-backed functions
\* evaluate(x) aborts for every x below start and every x at or above end; it
\* never returns an edge sample there.
C16_OutOfBoundsAborts ==
    call.fn \in {"sqrt_table", "exp_table", "ln_table"}
    /\ (call.x < lookup.start \/ call.x >= lookup.end) =>
        IsPanic(call.evaluate)

C16_Witness ==
    /\ call.fn \in {"exp_table", "ln_table"}
    /\ Len(lookup.table) > 1
    /\ call.x >= lookup.end
    /\ IsPanic(call.evaluate)

\* C17: strict out-of-bounds policy of the fallible table path: for the Sqrt
\* table and the CDF table and every x outside the sampled domain
\* [start, end), i.e. x < start or x >= end, try_evaluate(x) returns
\* Err(OutOfRange), never a clamped or saturated value, and get_index
\* returns Err(OutOfRange) for every such x.
C17_StrictOutOfBounds ==
    call.fn \in {"sqrt_table", "cdf_table"}
    /\ (call.x < lookup.start \/ call.x >= lookup.end) =>
        /\ call.try_evaluate = Err("OutOfRange")
        /\ call.get_index = Err("OutOfRange")

\* the number a digit string denotes
RECURSIVE NumberOf(_)
NumberOf(ds) ==
    IF Len(ds) = 0 THEN 0
    ELSE 10 * NumberOf(SubSeq(ds, 1, Len(ds) - 1)) + DigitVal(ds[Len(ds)])

\* C18: from_str truncates, never rounds: a decimal string with more than P
\* fractional digits gives what the string cut after its first P fractional
\* digits gives (for a negative string the magnitude is truncated, then
\* negated), and a string with at most P fractional digits whose magnitude is
\* representable parses to integer * 10^P + fraction * 10^(P - digits) with
\* the sign applied to the whole.
C18_FromStrTruncates ==
    call.fn = "from_str" =>
        LET digits == Len(call.fraction)
            kept == IF digits > PRECISION THEN PRECISION ELSE digits
            magnitude == NumberOf(call.integer) * Pow(10, PRECISION)
                         + NumberOf(SubSeq(call.fraction, 1, kept))
                               * Pow(10, PRECISION - kept)
        IN /\ digits > PRECISION => call.out = call.cut
           /\ magnitude <= MaxRaw =>
                  call.out = Ok(IF call.negative THEN -magnitude ELSE magnitude)

\* a negative string whose first dropped digit is a 9 has been parsed
C18_Witness ==
    /\ call.fn = "from_str"
    /\ call.negative
    /\ Len(call.fraction) > PRECISION
    /\ call.fraction[PRECISION + 1] = "9"
    /\ call.out.tag = "Ok"
    /\ call.out.raw < 0

\* C19: exp range reduction: for every representable x, positive and
\* negative, range_reduce_taylor_exp computes k = floor(x / ln2) and
\* r = x - k * ln2 with 0 <= r < ln2, so the Taylor series is only ever
\* evaluated on a remainder in [0, ln2).
C19_ExpRangeReduction ==
    call.fn = "exp" /\ IsValue(call.reduced) =>
        /\ call.reduced.k * ln2 <= call.x
        /\ call.x < (call.reduced.k + 1) * ln2
        /\ call.reduced.raw = call.x - call.reduced.k * ln2
        /\ zero <= call.reduced.raw
        /\ call.reduced.raw < ln2

\* x' = x / 2^s: doubling (s < 0) is exact, halving (s > 0) drops the bits
\* shifted out of the raw value
IsShifted(x, reduced, s) ==
    IF s >= 0 THEN reduced = x \div Pow(2, s) ELSE reduced = x * Pow(2, -s)

\* C20: ln range reduction: for every x > 0, when the two reduction loops of
\* range_reduce_arctanh_ln finish, the reduced value x' satisfies
\* 1 <= x' < 2 and the shift counter s satisfies x = x' * 2^s (+1 per
\* halving, -1 per doubling), doubling exact and halving exact up to
\* truncation of the lowest raw bit.
C20_LnRangeReduction ==
    call.fn = "ln" /\ call.x > zero /\ IsValue(call.reduced) =>
        /\ one <= call.reduced.raw
        /\ call.reduced.raw < 2 * one
        /\ IsShifted(call.x, call.reduced.raw, call.reduced.shift)

\* C20 as the code has it: the loops stop at x' <= 2, so the reduced value
\* satisfies 1 <= x' <= 2 (x' = 2 for x = 2, 4, 8, ..), with the same shift
\* counter.
C20_LnRangeReductionClosed ==
    call.fn = "ln" /\ call.x > zero /\ IsValue(call.reduced) =>
        /\ one <= call.reduced.raw
        /\ call.reduced.raw <= 2 * one
        /\ IsShifted(call.x, call.reduced.raw, call.reduced.shift)

\* a value above two has been halved more than once, with a bit lost
C20_Witness ==
    /\ call.fn = "ln" /\ call.x > zero /\ IsValue(call.reduced)
    /\ call.reduced.shift > 1
    /\ call.reduced.raw * Pow(2, call.reduced.shift) < call.x

\* the sum over n = lo..N of t^(2n+1) / (2n+1), each power and each quotient
\* truncated to the fixed-point grid; power is t^(2 * lo - 1)
RECURSIVE ArctanhSum(_, _, _, _)
ArctanhSum(power, squared, lo, N) ==
    IF lo > N THEN 0
    ELSE LET next == TruncDiv(power * squared, scale)
         IN TruncDiv(next, 2 * lo + 1) + ArctanhSum(next, squared, lo + 1, N)

\* 2 * (sum over n = 0..N of t^(2n+1) / (2n+1)) + s * ln2 for the reduced x'
LnSeries(reduced, s, N) ==
    LET t == TruncDiv((reduced - one) * scale, reduced + one)
        squared == TruncDiv(t * t, scale)
    IN 2 * (t + ArctanhSum(t, squared, 1, N)) + s * ln2

\* C21: ln series: with t = (x' - 1) / (x' + 1) for the reduced x',
\* range_reduce_arctanh_ln returns 2 * (sum over n = 0..N of
\* t^(2n+1) / (2n+1)) + s * ln2, the term of index n being t^(2n+1) divided
\* by the single divisor 2n+1, and N the configured depth.
C21_LnSeries ==
    call.fn = "ln" /\ call.x > zero /\ IsValue(call.reduced) =>
        call.evaluate = Value(LnSeries(call.reduced.raw, call.reduced.shift, call.depth))

\* C22: Newton-Raphson never divides by zero: for every representable x > 0,
\* the smallest positive raw value 1 included, and every iteration depth, the
\* seed and every iterate are non-zero, so sqrt_newton_raphson and
\* sqrt_newton_raphson_try complete all iterations and return a positive
\* result.  Stated for the depths that iterate at least once.
C22_NewtonNeverDividesByZero ==
    call.fn = "sqrt" /\ call.x > zero /\ call.depth > 0 =>
        /\ IsValue(call.evaluate) /\ call.evaluate.raw > zero
        /\ call.try_evaluate.tag = "Ok" /\ call.try_evaluate.raw > zero
        /\ call.try_iters = call.depth

\* C23: bit-shift identity: for every x, positive or negative, and every
\* shift count k >= 0 within the integer width, x << k has the raw value
\* raw(x) * 2^k with no bits silently lost, x >> k has the raw value
\* raw(x) / 2^k, the result of dividing x by the integer 2^k, and
\* two_pow_k(k) is exactly 2^k, two_pow_k(-k) exactly 10^P / 2^k.
C23_ShiftIdentity ==
    call.fn = "shift" =>
        /\ IsValue(call.shl) => call.shl.raw = call.x * Pow(2, call.k)
        /\ IsValue(call.div) => call.shr = call.div
        /\ IsValue(call.two_pow_k) => call.two_pow_k.raw = Pow(2, call.k) * scale
        /\ IsValue(call.two_pow_minus_k) =>
               call.two_pow_minus_k.raw = scale \div Pow(2, call.k)

\* C24: bounded cost: for every representable input, positive, zero or
\* negative, range_reduce_taylor_exp, sqrt_newton_raphson and
\* range_reduce_arctanh_ln finish after a bounded number of steps; both
\* reduction loops of ln terminate for every input they are entered with.
C24_BoundedCost ==
    call.fn \in {"exp", "sqrt", "ln"} => call.evaluate.tag /= "Hang"

\* the bucket of x in the table: floor((x - start) / step)
Bucket(x) == (x - lookup.start) \div lookup.step_size

\* n lies between a and b, whichever is the larger
Between(a, n, b) == (a <= n /\ n <= b) \/ (b <= n /\ n <= a)

\* C25: interpolated lookup stays between its bracketing samples: for a table
\* with step > 0 and x in bucket i with sample i + 1 present, table evaluate
\* returns y_i + ((x - x_i) / step) * (y_(i+1) - y_i), a value between sample
\* i and sample i + 1 inclusive, and on the grid point x = start + i * step
\* it returns sample i, the direct evaluation at that point.
C25_InterpolationBracketed ==
    call.fn \in {"sqrt_table", "exp_table", "ln_table", "cdf_table"}
    /\ call.x >= lookup.start /\ Bucket(call.x) + 1 < Len(lookup.table) =>
        LET i == Bucket(call.x)
            x_i == lookup.start + i * lookup.step_size
            y_i == lookup.table[i + 1]
            y_next == lookup.table[i + 2]
            t == TruncDiv((call.x - x_i) * scale, lookup.step_size)
        IN /\ call.evaluate = Value(y_i + TruncDiv(t * (y_next - y_i), scale))
           /\ Between(y_i, call.evaluate.raw, y_next)
           /\ call.x = x_i =>
                  /\ call.evaluate = Value(y_i)
                  /\ call.evaluate = Sampled(lookup.kind, call.x)

\* C26: table indexing is always in bounds inside the sampled domain: for
\* every table built with step > 0 and end > start and every x with
\* start <= x < end, the last bucket and tables whose end - start is not a
\* multiple of step included, get_index returns Ok(i) with i below the sample
\* count and evaluate of the table-backed function returns a value without
\* aborting; get_index never returns Ok(i) with i at or above the sample
\* count.
C26_IndexInBounds ==
    call.fn \in {"sqrt_table", "exp_table", "ln_table", "cdf_table"} =>
        /\ call.get_index.tag = "Ok" => call.get_index.raw < Len(lookup.table)
        /\ lookup.start <= call.x /\ call.x < lookup.end =>
               /\ call.get_index.tag = "Ok"
               /\ IsValue(call.evaluate)

====
